---- MODULE Spec2Model ----
(***************************************************************************)
(* Entity store, lifecycle operations (create / update / cascade delete)   *)
(* and the listing engine (search, sort, paginate) of the VacuuMVP API.    *)
(*                                                                         *)
(* Tables are sets of rows.  Primary keys are handed out by per-table      *)
(* counters and never reused (uuid4).  created_at is the value of the      *)
(* table's counter at insert: rows of one table are inserted by separate   *)
(* transactions, so created_at grows with insertion order.                 *)
(*                                                                         *)
(* Two specifications share the variables:                                 *)
(*   Spec      the lifecycle operations acting on the store;               *)
(*   ListSpec  a listing operation called page after page on a fixed       *)
(*             dataset; ListInit draws the dataset and the call.           *)
(***************************************************************************)
EXTENDS Integers, Sequences, FiniteSets, TLC

VARIABLES users, machines, sold, reports, parts, files, next, last, listing,
          service_types, identity, requests

\* the seeded ServiceType table, the accounts of the identity provider and
\* the requests in flight
ext == <<service_types, identity, requests>>
vars == <<users, machines, sold, reports, parts, files, next, last, listing, ext>>
db == <<users, machines, sold, reports, parts, files, next>>

-----------------------------------------------------------------------------
(* Bounds of the model *)

\* rows ever inserted into machines, sold_machines and service_report together
MaxRows == 3
\* part lines and uploads of one create_service_report call
MaxParts == 1
MaxFiles == 1

-----------------------------------------------------------------------------
(* Values *)

NULL == 0
NoKey == <<>>

\* Text columns hold sequences of characters.  No operation of the model
\* stores an empty string, so the empty sequence stands for a NULL text.
NoStr == <<>>

TypeNames == {"pump", "part"}
RoleNames == {"admin", "distributor"}
\* a name of the model is written by its initial: "W" is "Warranty"
ServiceTypeRow(id, service_type) == [id |-> id, service_type |-> service_type]
BaseServiceTypes == {ServiceTypeRow("Warranty", <<"W">>)}
ServiceTypeIds == {t.id : t \in service_types}

TypeInputs == {"pump", "valve"}
ModelNos == {<<"P", "X">>}
PartNos == {<<"P", "1">>}
SerialNos == {<<"S", "1">>}
CustomerNames == {<<"A">>}

MachineKey(id) == <<"machines", id>>
ReportFileKey(id) == <<"service_reports", id>>

-----------------------------------------------------------------------------
(* Rows *)

MachineRow(id, type, model_no, part_no, file_key) ==
    [id |-> id, type |-> type, model_no |-> model_no, part_no |-> part_no,
     file_key |-> file_key, created_at |-> id]

SoldMachineRow(id, machine_id, user_id, serial_no, customer_name) ==
    [id |-> id, machine_id |-> machine_id, user_id |-> user_id,
     serial_no |-> serial_no, customer_name |-> customer_name,
     created_at |-> id]

UserRow(id, role, name, email) ==
    [id |-> id, role |-> role, name |-> name, email |-> email, created_at |-> id]

ServiceReportRow(id, user_id, machine_id, service_type_id, problem) ==
    [id |-> id, user_id |-> user_id, machine_id |-> machine_id,
     sold_machine_id |-> NULL, service_type_id |-> service_type_id,
     problem |-> problem, created_at |-> id]

ServiceReportPartRow(id, service_report_id, machine_id, quantity) ==
    [id |-> id, service_report_id |-> service_report_id,
     machine_id |-> machine_id, quantity |-> quantity]

ServiceReportFilesRow(id, service_report_id) ==
    [id |-> id, service_report_id |-> service_report_id,
     file_key |-> ReportFileKey(id)]

-----------------------------------------------------------------------------
(* Result of the last operation *)

Result(op, id, val, res, s3del) ==
    [op |-> op, id |-> id, val |-> val, res |-> res, s3del |-> s3del,
     part_no |-> NoStr, machine_id |-> NULL, s3failed |-> {},
     detail |-> [serial_no |-> NoStr, customer_name |-> NoStr, quantities |-> {}]]

\* a result that also records the part_no / machine_id the request named
Requested(result, part_no, machine_id) ==
    [result EXCEPT !.part_no = part_no, !.machine_id = machine_id]

\* a result that carries the assembled view of a ServiceReport
Detailed(result, serial_no, customer_name, quantities) ==
    [result EXCEPT !.detail = [serial_no |-> serial_no,
                               customer_name |-> customer_name,
                               quantities |-> quantities]]

\* a result that also records the object-store deletes that failed
StoreFailed(result, keys) == [result EXCEPT !.s3failed = keys]

\* no listing is called
NoListing == [fn |-> "none"]

\* the accounts the store starts with
BaseUsers == {UserRow(1, "admin", <<"A">>, <<"x", "1">>),
              UserRow(2, "distributor", <<"b">>, <<"x", "2">>)}

\* the identity provider: its accounts and the reset mails asked of it
BaseIdentity == [accounts |-> {u.email : u \in BaseUsers}, resets |-> {}]

-----------------------------------------------------------------------------
(* Queries used by the operations *)

Inserted == (next.machines - 1) + (next.sold - 1) + (next.reports - 1)
CanInsert == Inserted < MaxRows

\* ids a request can name: every id handed out so far and one never used
MachineIds == 1..next.machines
SoldIds == 1..next.sold
UserIds == 1..next.users

MachineById(id) == {m \in machines : m.id = id}
SoldById(id) == {s \in sold : s.id = id}
UserById(id) == {u \in users : u.id = id}

\* Machine.part_no == value; a None value compiles to "part_no IS NULL"
MachinesByPartNo(part_no) == {m \in machines : m.part_no = part_no}

-----------------------------------------------------------------------------
(* Lifecycle operations *)

create_machine_by_type ==
    \E type_name \in TypeInputs, model_no \in ModelNos,
       part_no \in PartNos \cup {NoStr}, file \in {"none", "ok", "fail"} :
       /\ CanInsert
       /\ IF type_name \notin TypeNames
          THEN /\ last' = Result("create_machine_by_type", NULL, NoStr, "NotFound", {})
               /\ UNCHANGED db
          ELSE IF MachinesByPartNo(part_no) # {}
          THEN /\ last' = Result("create_machine_by_type", NULL, part_no, "Conflict", {})
               /\ UNCHANGED db
          ELSE IF file = "fail"
          THEN /\ last' = Result("create_machine_by_type", NULL, NoStr, "ServerError", {})
               /\ UNCHANGED db
          ELSE LET id == next.machines
                   key == IF file = "ok" THEN MachineKey(id) ELSE NoKey
               IN /\ machines' = machines \cup
                        {MachineRow(id, type_name, model_no, part_no, key)}
                  /\ next' = [next EXCEPT !.machines = id + 1]
                  /\ last' = Result("create_machine_by_type", id, part_no, "ok", {})
                  /\ UNCHANGED <<users, sold, reports, parts, files>>
       /\ UNCHANGED <<listing, ext>>

\* the duplicate check left out
SoldBySerialNo_unchecked(serial_no) == {}

\* machines.py:329-331  SoldMachine.serial_no == machine_data.get("serial_no")
SoldBySerialNo(serial_no) == {s \in sold : s.serial_no = serial_no}

create_sold_machine ==
    \E serial_no \in SerialNos, part_no \in PartNos \cup {NoStr},
       customer_name \in CustomerNames :
       /\ CanInsert
       /\ IF SoldBySerialNo(serial_no) # {}
          THEN /\ last' = Requested(Result("create_sold_machine", NULL, serial_no, "Conflict", {}),
                                         part_no, NULL)
               /\ UNCHANGED db
          ELSE IF MachinesByPartNo(part_no) = {}
          \* machine is None: machine.id raises AttributeError outside any try
          THEN /\ last' = Requested(Result("create_sold_machine", NULL, serial_no, "ServerError", {}),
                                         part_no, NULL)
               /\ UNCHANGED db
          ELSE \E machine \in MachinesByPartNo(part_no) :
                  LET id == next.sold
                  IN /\ sold' = sold \cup
                          {SoldMachineRow(id, machine.id, NULL, serial_no, customer_name)}
                     /\ next' = [next EXCEPT !.sold = id + 1]
                     /\ last' = Requested(Result("create_sold_machine", id, serial_no, "ok", {}),
                                         part_no, NULL)
                     /\ UNCHANGED <<users, machines, reports, parts, files>>
       /\ UNCHANGED <<listing, ext>>

create_customer_record ==
    \E machine_id \in MachineIds, user \in users,
       customer_name \in CustomerNames :
       /\ CanInsert
       /\ IF MachineById(machine_id) = {}
          THEN /\ last' = Requested(Result("create_customer_record", NULL, NoStr, "NotFound", {}),
                                         NoStr, machine_id)
               /\ UNCHANGED db
          ELSE IF {s \in sold : s.machine_id = machine_id} # {}
          THEN /\ last' = Requested(Result("create_customer_record", NULL, NoStr, "Conflict", {}),
                                         NoStr, machine_id)
               /\ UNCHANGED db
          ELSE LET id == next.sold
               IN /\ sold' = sold \cup
                       {SoldMachineRow(id, machine_id, user.id, NoStr, customer_name)}
                  /\ next' = [next EXCEPT !.sold = id + 1]
                  /\ last' = Requested(Result("create_customer_record", id, NoStr, "ok", {}),
                                         NoStr, machine_id)
                  /\ UNCHANGED <<users, machines, reports, parts, files>>
       /\ UNCHANGED <<listing, ext>>

-----------------------------------------------------------------------------
(* create_service_report *)

\* json.loads(parts) is handed over as parsed: any integer may be given
QuantityInputs == {0, 2}

PartLines ==
    [machine_id : MachineIds, given : {FALSE}, quantity : {1}] \cup
    [machine_id : MachineIds, given : {TRUE}, quantity : QuantityInputs]

SeqsUpTo(S, n) == UNION {[1..k -> S] : k \in 0..n}

\* part_data.get("quantity", 1)
StoredQuantity(line) == IF line.given THEN line.quantity ELSE 1

\* the new ServiceReportPart rows; a row id (uuid4) is modelled by the pair
\* of its report and its position in the request
NewParts(report_id, lines) ==
    {ServiceReportPartRow(<<report_id, i>>, report_id, lines[i].machine_id,
                          StoredQuantity(lines[i])) : i \in 1..Len(lines)}

\* one ServiceReportFiles row per upload that has a filename and succeeded
NewFiles(report_id, uploads) ==
    {ServiceReportFilesRow(<<report_id, i>>, report_id) :
        i \in {j \in 1..Len(uploads) : uploads[j] = "ok"}}

\* service_report.py:47-68, 90-98: the lookups that raise HTTPException(404)
ServiceTypeMissing(service_type_id) == service_type_id \notin ServiceTypeIds
MachineMissing(machine_id) == MachineById(machine_id) = {}
PartMachineMissing(lines) ==
    \E i \in 1..Len(lines) : MachineMissing(lines[i].machine_id)

ServiceTypeInputs == ServiceTypeIds \cup {"nosuch"}
UploadInputs == SeqsUpTo({"ok", "fail", "noname"}, MaxFiles)
LineInputs == SeqsUpTo(PartLines, MaxParts)

\* failures the environment can inject after the lookups: AWSService() or
\* the upload raising while files are handled, or db.commit() raising
FaultInputs == {"none", "files", "commit"}

\* the statement of the try block that raises, "none" when none does
FailureStage(service_type_id, machine_id, lines, uploads, fault) ==
    IF ServiceTypeMissing(service_type_id) THEN "service_type"
    ELSE IF MachineMissing(machine_id) THEN "machine"
    ELSE IF PartMachineMissing(lines) THEN "part"
    ELSE IF fault = "files" /\ Len(uploads) > 0 THEN "files"
    ELSE IF fault = "commit" THEN "commit"
    ELSE "none"

\* the stages reached after db.add(new_service_report); db.flush()
AfterFlush == {"part", "files", "commit"}

\* the part lines processed before the first one naming a missing Machine
LinesBeforeMissing(lines) ==
    LET i == CHOOSE k \in 1..Len(lines) :
                /\ MachineMissing(lines[k].machine_id)
                /\ \A j \in 1..(k - 1) : ~MachineMissing(lines[j].machine_id)
    IN SubSeq(lines, 1, i - 1)

\* rows the session holds, flushed or pending, when the stage raises
PendingReports(stage, row) == IF stage \in AfterFlush THEN {row} ELSE {}
PendingParts(stage, report_id, lines) ==
    IF stage = "part" THEN NewParts(report_id, LinesBeforeMissing(lines))
    ELSE IF stage \in {"files", "commit"} THEN NewParts(report_id, lines)
    ELSE {}
PendingFiles(stage, report_id, uploads) ==
    IF stage = "commit" THEN NewFiles(report_id, uploads) ELSE {}

\* the rollback left out: the table stays as the call has made it so far
RolledBack_kept(before, provisional) == provisional

\* db.rollback(): the table is again as it was before the call
RolledBack(before, provisional) == before

\* An exception raised inside the try, HTTPException(404) included, is caught
\* by "except Exception": rollback, then a 500 whose detail carries str(e).
\* last.val records the stage that raised.
create_service_report_failed ==
    /\ CanInsert
    /\ \E service_type_id \in ServiceTypeInputs, machine_id \in MachineIds,
          lines \in LineInputs, user \in users, uploads \in UploadInputs,
          fault \in FaultInputs :
          LET stage == FailureStage(service_type_id, machine_id, lines, uploads, fault)
              id == next.reports
              row == ServiceReportRow(id, user.id, machine_id, service_type_id, <<"p">>)
          IN /\ stage # "none"
             /\ reports' = RolledBack(reports, reports \cup PendingReports(stage, row))
             /\ parts' = RolledBack(parts, parts \cup PendingParts(stage, id, lines))
             /\ files' = RolledBack(files, files \cup PendingFiles(stage, id, uploads))
             /\ last' = Result("create_service_report", NULL, <<stage>>, "ServerError", {})
    /\ UNCHANGED <<users, machines, sold, next>>
    /\ UNCHANGED <<listing, ext>>

create_service_report_ok ==
    /\ CanInsert
    /\ \E service_type_id \in ServiceTypeInputs :
        /\ ~ServiceTypeMissing(service_type_id)
        /\ \E machine_id \in MachineIds :
            /\ ~MachineMissing(machine_id)
            /\ \E lines \in LineInputs :
                /\ ~PartMachineMissing(lines)
                /\ \E user \in users, uploads \in UploadInputs :
                      LET id == next.reports
                      IN /\ reports' = reports \cup
                              {ServiceReportRow(id, user.id, machine_id,
                                                service_type_id, <<"p">>)}
                         /\ parts' = parts \cup NewParts(id, lines)
                         /\ files' = files \cup NewFiles(id, uploads)
                         /\ next' = [next EXCEPT !.reports = id + 1]
                         /\ last' = Result("create_service_report", id, NoStr, "ok", {})
                         /\ UNCHANGED <<users, machines, sold>>
    /\ UNCHANGED <<listing, ext>>

create_service_report ==
    \/ create_service_report_failed
    \/ create_service_report_ok

-----------------------------------------------------------------------------
(* update_machine_details *)

\* The body reads the name machine_id, which the function does not bind (its
\* parameter is sold_machine_id): NameError at the first statement of the
\* try, caught by "except Exception": rollback, then a 500.  The router
\* passes machine_id=..., a TypeError that its own handler turns into a 500.
update_machine_details ==
    \E id \in MachineIds, part_no \in PartNos :
       /\ last' = Result("update_machine_details", id, part_no, "ServerError", {})
       /\ UNCHANGED db
       /\ UNCHANGED <<listing, ext>>

-----------------------------------------------------------------------------
(* Cascade deletes *)

\* sold_machine.service_reports
ServiceReportsOfSold(s) == {r \in reports : r.sold_machine_id = s.id}

\* report.service_report_files, report.parts
FilesOfReports(R) == {f \in files : \E r \in R : f.service_report_id = r.id}
PartsOfReports(R) == {p \in parts : \E r \in R : p.service_report_id = r.id}

FileKeys(F) == {f.file_key : f \in F}

\* db.delete(parent) with a one-to-many relationship that declares no
\* cascade: the unit of work sets the children's foreign key to NULL
\* a delete that leaves the references of the children as they are
NullifyMachine_kept(R, machine_id) == R

NullifyMachine(R, machine_id) ==
    {IF r.machine_id = machine_id THEN [r EXCEPT !.machine_id = NULL] ELSE r : r \in R}
NullifyUser(R, user_id) ==
    {IF r.user_id = user_id THEN [r EXCEPT !.user_id = NULL] ELSE r : r \in R}

\* SoldMachine.machine_id == machine.id
SoldOfMachine(machine_id) == {s \in sold : s.machine_id = machine_id}

\* the object store answers or not; db.commit() succeeds or raises
StoreInputs == {"up", "down"}
DbFaultInputs == {"none", "commit"}

\* the step of a delete operation that raised: the calls to the object store
\* come before db.commit()
RaisedAt(out) == IF out.raised THEN <<"delete_file">> ELSE <<"commit">>

\* a delete call that lets the failure out to its caller
delete_file_raising(store, keys) ==
    [raised |-> store = "down" /\ keys # {},
     failed |-> IF store = "down" THEN keys ELSE {}]

\* AWSService.delete_file for each of the keys: every failure is caught
\* inside and comes back as {"success": False}; nothing is raised
delete_file(store, keys) ==
    [raised |-> FALSE, failed |-> IF store = "down" THEN keys ELSE {}]

\* the delete widened to every sold unit of the same Machine
delete_sold_machine_all_units ==
    \E sold_machine_id \in SoldIds :
       /\ IF SoldById(sold_machine_id) = {}
          THEN /\ last' = Result("delete_sold_machine", NULL, NoStr, "NotFound", {})
               /\ UNCHANGED db
          ELSE LET s == CHOOSE x \in SoldById(sold_machine_id) : TRUE
               IN /\ sold' = sold \ SoldOfMachine(s.machine_id)
                  /\ last' = Result("delete_sold_machine", sold_machine_id, NoStr, "ok", {})
                  /\ UNCHANGED <<users, machines, reports, parts, files, next>>
       /\ UNCHANGED <<listing, ext>>

delete_sold_machine ==
    \E sold_machine_id \in SoldIds, store \in StoreInputs, fault \in DbFaultInputs :
       /\ IF SoldById(sold_machine_id) = {}
          THEN /\ last' = Result("delete_sold_machine", NULL, NoStr, "NotFound", {})
               /\ UNCHANGED db
          ELSE LET s == CHOOSE x \in SoldById(sold_machine_id) : TRUE
                   R == ServiceReportsOfSold(s)
                   F == FilesOfReports(R)
                   P == PartsOfReports(R)
                   out == delete_file(store, FileKeys(F))
               IN IF out.raised \/ fault = "commit"
                  THEN /\ files' = RolledBack(files, files \ F)
                       /\ parts' = RolledBack(parts, parts \ P)
                       /\ reports' = RolledBack(reports, reports \ R)
                       /\ sold' = RolledBack(sold, sold \ {s})
                       /\ last' = StoreFailed(
                              Result("delete_sold_machine", sold_machine_id, RaisedAt(out),
                                     "ServerError", FileKeys(F)), out.failed)
                       /\ UNCHANGED <<users, machines, next>>
                  ELSE /\ files' = files \ F
                       /\ parts' = parts \ P
                       /\ reports' = reports \ R
                       /\ sold' = sold \ {s}
                       /\ last' = StoreFailed(
                              Result("delete_sold_machine", sold_machine_id, NoStr,
                                     "ok", FileKeys(F)), out.failed)
                       /\ UNCHANGED <<users, machines, next>>
       /\ UNCHANGED <<listing, ext>>

\* the reports the loop over sold_machines visits
CascadedReports(machine_id) ==
    UNION {ServiceReportsOfSold(s) : s \in SoldOfMachine(machine_id)}

\* ServiceReportPart.machine_id == machine.id, deleted in bulk
PartsUsingMachine(machine_id) == {p \in parts : p.machine_id = machine_id}

delete_machine ==
    \E machine_id \in MachineIds, store \in StoreInputs, fault \in DbFaultInputs :
       /\ IF MachineById(machine_id) = {}
          THEN /\ last' = Result("delete_machine", NULL, NoStr, "NotFound", {})
               /\ UNCHANGED db
          ELSE LET m == CHOOSE x \in MachineById(machine_id) : TRUE
                   R == CascadedReports(machine_id)
                   F == FilesOfReports(R)
                   P == PartsOfReports(R)
                   K == ({m.file_key} \ {NoKey}) \cup FileKeys(F)
                   out == delete_file(store, K)
               IN IF out.raised \/ fault = "commit"
                  THEN /\ files' = RolledBack(files, files \ F)
                       /\ parts' = RolledBack(parts,
                                       (parts \ P) \ PartsUsingMachine(machine_id))
                       /\ reports' = RolledBack(reports,
                                       NullifyMachine(reports \ R, machine_id))
                       /\ sold' = RolledBack(sold, sold \ SoldOfMachine(machine_id))
                       /\ machines' = RolledBack(machines, machines \ {m})
                       /\ last' = StoreFailed(
                              Result("delete_machine", machine_id, RaisedAt(out),
                                     "ServerError", K), out.failed)
                       /\ UNCHANGED <<users, next>>
                  ELSE /\ files' = files \ F
                       /\ parts' = (parts \ P) \ PartsUsingMachine(machine_id)
                       /\ reports' = NullifyMachine(reports \ R, machine_id)
                       /\ sold' = sold \ SoldOfMachine(machine_id)
                       /\ machines' = machines \ {m}
                       /\ last' = StoreFailed(
                              Result("delete_machine", machine_id, NoStr, "ok", K),
                              out.failed)
                       /\ UNCHANGED <<users, next>>
       /\ UNCHANGED <<listing, ext>>

\* users.py:129-135: AWSService is not imported in users.py, so AWSService()
\* raises NameError inside the try; the handler prints a warning and no
\* delete_file call is made
UserFileDeleteRequests(user_id) == {}

delete_user ==
    \E user_id \in UserIds, store \in StoreInputs, fault \in DbFaultInputs :
       /\ IF UserById(user_id) = {}
          THEN /\ last' = Result("delete_user", NULL, NoStr, "NotFound", {})
               /\ UNCHANGED db
          ELSE LET u == CHOOSE x \in UserById(user_id) : TRUE
                   K == UserFileDeleteRequests(user_id)
                   out == delete_file(store, K)
               IN IF out.raised \/ fault = "commit"
                  THEN /\ users' = RolledBack(users, users \ {u})
                       /\ reports' = RolledBack(reports, NullifyUser(reports, user_id))
                       /\ sold' = RolledBack(sold, NullifyUser(sold, user_id))
                       /\ last' = StoreFailed(
                              Result("delete_user", user_id, RaisedAt(out),
                                     "ServerError", K),
                              out.failed)
                       /\ UNCHANGED <<machines, parts, files, next>>
                  ELSE /\ users' = users \ {u}
                       /\ reports' = NullifyUser(reports, user_id)
                       /\ sold' = NullifyUser(sold, user_id)
                       /\ last' = StoreFailed(
                              Result("delete_user", user_id, NoStr, "ok", K),
                              out.failed)
                       /\ UNCHANGED <<machines, parts, files, next>>
       /\ UNCHANGED <<listing, ext>>

-----------------------------------------------------------------------------
(* Report assembly: get_service_report_detail *)

ReportIds == 1..next.reports

\* Machine.serial_no as the query reads it: the column of the Machine row,
\* which create_machine_by_type never sets
MachineSerialNo(m) == NoStr

\* ServiceReport JOIN User JOIN ServiceType, filtered by the report id
ReportJoin(report_id) ==
    {r \in reports : /\ r.id = report_id
                     /\ UserById(r.user_id) # {}
                     /\ r.service_type_id \in ServiceTypeIds}

\* OUTER JOIN SoldMachine ON machine_id = report.machine_id AND
\* user_id = report.user_id
SoldJoinedTo(r) ==
    {x \in sold : /\ r.machine_id # NULL /\ x.machine_id = r.machine_id
                  /\ r.user_id # NULL /\ x.user_id = r.user_id}

\* customer_name of each joined row the query's .first() can return; a NULL
\* when no SoldMachine joins
CustomerNamesOf(r) ==
    IF SoldJoinedTo(r) = {} THEN {NoStr}
    ELSE {x.customer_name : x \in SoldJoinedTo(r)}

\* OUTER JOIN Machine ON ServiceReport.machine_id = Machine.id
SerialNosOf(r) ==
    IF MachineById(r.machine_id) = {} THEN {NoStr}
    ELSE {MachineSerialNo(m) : m \in MachineById(r.machine_id)}

\* ServiceReportPart JOIN Machine, filtered by the report id
PartQuantities(report_id) ==
    {<<x.id, x.quantity>> :
        x \in {y \in parts : /\ y.service_report_id = report_id
                             /\ MachineById(y.machine_id) # {}}}

\* The helper raises Exception("Service report not found") when the joined
\* query has no row; the endpoint turns every exception into a 404.
get_service_report_detail ==
    \E report_id \in ReportIds :
       /\ IF ReportJoin(report_id) = {}
          THEN last' = Result("get_service_report_detail", report_id, NoStr,
                              "NotFound", {})
          ELSE \E r \in ReportJoin(report_id) :
                  \E serial_no \in SerialNosOf(r), customer_name \in CustomerNamesOf(r) :
                     last' = Detailed(
                        Result("get_service_report_detail", report_id, NoStr, "ok", {}),
                        serial_no, customer_name, PartQuantities(report_id))
       /\ UNCHANGED db
       /\ UNCHANGED <<listing, ext>>

-----------------------------------------------------------------------------
(* get_sold_machine_details *)

\* The SoldMachine is looked up and used untested: for an id that matches no
\* row sold_machine is None and sold_machine.machine_id raises AttributeError,
\* which "except Exception" turns into a 500.  The 404 is raised only for a
\* SoldMachine whose Machine is missing.
get_sold_machine_details ==
    \E sold_machine_id \in SoldIds :
       /\ IF SoldById(sold_machine_id) = {}
          THEN last' = Result("get_sold_machine_details", sold_machine_id, NoStr,
                              "ServerError", {})
          ELSE \E x \in SoldById(sold_machine_id) :
                  IF MachineById(x.machine_id) = {}
                  THEN last' = Result("get_sold_machine_details", sold_machine_id,
                                      NoStr, "NotFound", {})
                  ELSE last' = Result("get_sold_machine_details", sold_machine_id,
                                      x.serial_no, "ok", {})
       /\ UNCHANGED db
       /\ UNCHANGED <<listing, ext>>

-----------------------------------------------------------------------------
(* Listing engine: search, sort, paginate *)

\* rows of one table in a listed dataset
MaxList == 2
\* page numbers and page sizes a listing is called with
MaxPage == 2
MaxLimit == 2

\* characters of the model in code point order
Ascii == <<"%", "1", "2", "3", "4", "A", "H", "I", "P", "S", "W", "X", "_",
           "a", "b", "h", "i", "p", "s", "w", "x">>
Code(c) == CHOOSE i \in 1..Len(Ascii) : Ascii[i] = c

ToLower == [c \in {"A", "H", "I", "P", "S", "W", "X"} |->
              CASE c = "A" -> "a" [] c = "H" -> "h" [] c = "I" -> "i"
                [] c = "P" -> "p" [] c = "S" -> "s"
                [] c = "W" -> "w" [] c = "X" -> "x"]
Lower(c) == IF c \in DOMAIN ToLower THEN ToLower[c] ELSE c

\* str.__lt__ and the ascending order of a text column
RECURSIVE TextLess(_, _)
TextLess(s, t) ==
    IF t = <<>> THEN FALSE
    ELSE IF s = <<>> THEN TRUE
    ELSE IF Head(s) # Head(t) THEN Code(Head(s)) < Code(Head(t))
    ELSE TextLess(Tail(s), Tail(t))

\* text ILIKE pattern: % matches any run, _ any one character, the rest
\* matches itself whatever its case
RECURSIVE Like(_, _)
Like(text, pattern) ==
    IF pattern = <<>> THEN text = <<>>
    ELSE IF Head(pattern) = "%"
         THEN \/ Like(text, Tail(pattern))
              \/ text # <<>> /\ Like(Tail(text), pattern)
    ELSE /\ text # <<>>
         /\ Head(pattern) = "_" \/ Lower(Head(pattern)) = Lower(Head(text))
         /\ Like(Tail(text), Tail(pattern))

\* search_term = f"%{search}%";  column.ilike(search_term) is NULL on a NULL
ILike(text, search) == text # NoStr /\ Like(text, <<"%">> \o search \o <<"%">>)

\* "if search:" skips the filter for None and for the empty string
NoSearch == <<>>

ServiceTypeText(service_type_id) ==
    (CHOOSE t \in service_types : t.id = service_type_id).service_type

\* hasattr(models.X, sort_by) for the sort_by values of the model
MachineAttrs == {"id", "model_no", "part_no", "created_at"}
UserAttrs == {"id", "name", "created_at"}
ServiceReportAttrs == {"id", "problem", "created_at"}

\* x sorts strictly before y on column col, ascending
KeyLess(col, x, y) ==
    IF col \in {"id", "created_at"} THEN x[col] < y[col]
    ELSE TextLess(x[col], y[col])

Precedes(col, reverse, x, y) ==
    IF reverse THEN KeyLess(col, y, x) ELSE KeyLess(col, x, y)

\* sorted(rows, key = column or "", reverse = reverse) of the rows in the
\* order the unordered query returned them.  The heap order of an unchanged
\* table is the same for every scan; ids are opaque, so it is taken to be
\* the order of the ids.  sorted() is stable, with reverse too.
PySorted(rows, col, reverse) ==
    LET Before(x, y) == \/ Precedes(col, reverse, x, y)
                        \/ ~Precedes(col, reverse, y, x) /\ x.id < y.id
        Rank(x) == Cardinality({y \in rows : Before(y, x)}) + 1
    IN [i \in 1..Cardinality(rows) |-> CHOOSE x \in rows : Rank(x) = i]

\* ORDER BY column [DESC]: every order of the rows that the column allows.
\* Rows with equal keys come in an order the plan of the statement decides,
\* and the plan depends on OFFSET and LIMIT.
SqlSorted(rows, col, reverse) ==
    {f \in [1..Cardinality(rows) -> rows] :
        /\ \A i, j \in DOMAIN f : i # j => f[i] # f[j]
        /\ \A i, j \in DOMAIN f : i < j => ~Precedes(col, reverse, f[j], f[i])}

\* list[(page - 1) * limit : page * limit]  and  OFFSET / LIMIT
Slice(list, page, limit) ==
    [i \in 1..(IF (page - 1) * limit >= Len(list) THEN 0
               ELSE IF page * limit <= Len(list) THEN limit
               ELSE Len(list) - (page - 1) * limit)
        |-> list[(page - 1) * limit + i]]

IdsOf(list) == [i \in DOMAIN list |-> list[i].id]

\* has_next true on the page that ends at the last row
Page_inclusive(total, page, limit, items) ==
    [total |-> total, has_next |-> page * limit <= total,
     has_previous |-> page > 1, items |-> IdsOf(items)]

\* the pagination metadata every listing but get_recent_activities computes
Page(total, page, limit, items) ==
    [total |-> total, has_next |-> page * limit < total,
     has_previous |-> page > 1, items |-> IdsOf(items)]

\* math.ceil(total / limit)
Ceil(total, limit) == (total + limit - 1) \div limit

\* A listing is one function called with one set of arguments, page after
\* page: listing holds the call and the response of every page fetched.
Fetched(page, response) ==
    [listing EXCEPT !.status = "ok",
                    !.pages = [p \in DOMAIN listing.pages \cup {page} |->
                                 IF p = page THEN response ELSE listing.pages[p]]]

Refused(status) == [listing EXCEPT !.status = status]

SearchInputs == {NoSearch, <<"a">>}
SortOrders == {"asc", "desc"}
Pages == 1..MaxPage
Limits == 1..MaxLimit

-----------------------------------------------------------------------------
(* Listing operations *)

TypeNameInputs == TypeNames \cup {"valve"}
RoleNameInputs == RoleNames \cup {"guest"}
MachineSortInputs == {"created_at", "model_no", "nonexistent"}
UserSortInputs == {"created_at", "name", "nonexistent"}
ServiceReportSortInputs == {"created_at", "problem", "nonexistent"}

MachineSearch(m, search) ==
    \/ search = NoSearch
    \/ ILike(m.model_no, search)
    \/ ILike(m.part_no, search)

MachinesOfType(type_name, search) ==
    {m \in machines : m.type = type_name /\ MachineSearch(m, search)}

get_machines_by_type ==
    /\ listing.fn = "get_machines_by_type"
    /\ \E page \in Pages :
          LET type_name == listing.type_name
              limit == listing.limit
              matching == MachinesOfType(type_name, listing.search)
              sort_attr == IF listing.sort_by \in MachineAttrs
                           THEN listing.sort_by ELSE "created_at"
              reverse == listing.sort_order = "desc"
              sorted == PySorted(matching, sort_attr, reverse)
          IN listing' = IF type_name \notin TypeNames
                        THEN Refused("NotFound")
                        ELSE Fetched(page, Page(Cardinality(matching), page, limit,
                                                Slice(sorted, page, limit)))
    /\ UNCHANGED <<db, last, ext>>

\* Machine JOIN SoldMachine JOIN Type with the search over both tables
SoldSearch(m, s, search) ==
    \/ search = NoSearch
    \/ ILike(s.serial_no, search)
    \/ ILike(m.model_no, search)
    \/ ILike(m.part_no, search)
    \/ ILike(s.customer_name, search)

SoldJoin(type_name, search) ==
    {j \in machines \X sold : /\ j[2].machine_id = j[1].id
                              /\ j[1].type = type_name
                              /\ SoldSearch(j[1], j[2], search)}

\* with_entities(Machine.id): one id for each joined row
JoinedIds(joined) ==
    LET Before(x, y) == \/ x[1].id < y[1].id
                        \/ x[1].id = y[1].id /\ x[2].id < y[2].id
        Rank(x) == Cardinality({y \in joined : Before(y, x)}) + 1
    IN [i \in 1..Cardinality(joined) |->
          (CHOOSE x \in joined : Rank(x) = i)[1].id]

\* the DISTINCT left out
Distinct_all(ids) == ids

\* .distinct(): every id once
Distinct(ids) ==
    LET first == {i \in DOMAIN ids : \A j \in 1..(i - 1) : ids[j] # ids[i]}
        Rank(i) == Cardinality({j \in first : j < i}) + 1
    IN [k \in 1..Cardinality(first) |-> ids[CHOOSE i \in first : Rank(i) = k]]

get_sold_machines_by_type ==
    /\ listing.fn = "get_sold_machines_by_type"
    /\ \E page \in Pages :
          LET type_name == listing.type_name
              limit == listing.limit
              machine_ids == Distinct(JoinedIds(SoldJoin(type_name, listing.search)))
              total_items == Len(machine_ids)
              fetched == {m \in machines :
                            \E i \in DOMAIN machine_ids : machine_ids[i] = m.id}
              sort_attr == IF listing.sort_by \in MachineAttrs
                           THEN listing.sort_by ELSE "created_at"
              reverse == listing.sort_order = "desc"
              sorted == PySorted(fetched, sort_attr, reverse)
          IN listing' = IF type_name \notin TypeNames
                        THEN Refused("NotFound")
                        ELSE Fetched(page, Page(total_items, page, limit,
                                                Slice(sorted, page, limit)))
    /\ UNCHANGED <<db, last, ext>>

UserSearch(u, search) ==
    search = NoSearch \/ ILike(u.name, search) \/ ILike(u.email, search)

UsersOfRole(role_name, search) ==
    {u \in users : u.role = role_name /\ UserSearch(u, search)}

get_users_by_role ==
    /\ listing.fn = "get_users_by_role"
    /\ \E page \in Pages :
          LET role_name == listing.role_name
              limit == listing.limit
              matching == UsersOfRole(role_name, listing.search)
              known == listing.sort_by \in UserAttrs
              sort_column == IF known THEN listing.sort_by ELSE "created_at"
              reverse == IF known THEN listing.sort_order = "desc" ELSE TRUE
          IN IF role_name \notin RoleNames
             THEN listing' = Refused("NotFound")
             ELSE \E sorted \in SqlSorted(matching, sort_column, reverse) :
                     listing' = Fetched(page, Page(Cardinality(matching), page, limit,
                                                   Slice(sorted, page, limit)))
    /\ UNCHANGED <<db, last, ext>>

\* a check that takes every caller for an admin
is_admin_any(user_id) == TRUE

is_admin(user_id) == \E u \in users : u.id = user_id /\ u.role = "admin"

ReportSearch(r, search) == search = NoSearch \/ ILike(r.problem, search)

ReportsVisibleTo(user_id, search) ==
    {r \in reports : /\ is_admin(user_id) \/ r.user_id = user_id
                     /\ ReportSearch(r, search)}

get_user_service_reports ==
    /\ listing.fn = "get_user_service_reports"
    /\ \E page \in Pages :
          LET limit == listing.limit
              matching == ReportsVisibleTo(listing.user_id, listing.search)
              known == listing.sort_by \in ServiceReportAttrs
              sort_column == IF known THEN listing.sort_by ELSE "created_at"
              reverse == IF known THEN listing.sort_order = "desc" ELSE TRUE
          IN \E sorted \in SqlSorted(matching, sort_column, reverse) :
                listing' = Fetched(page, Page(Cardinality(matching), page, limit,
                                              Slice(sorted, page, limit)))
    /\ UNCHANGED <<db, last, ext>>

ReportsOfSoldMachine(sold_machine_id, search) ==
    {r \in reports : /\ r.sold_machine_id = sold_machine_id
                     /\ ReportSearch(r, search)}

get_machine_service_reports ==
    /\ listing.fn = "get_machine_service_reports"
    /\ \E page \in Pages :
          LET sold_machine_id == listing.sold_machine_id
              limit == listing.limit
              matching == ReportsOfSoldMachine(sold_machine_id, listing.search)
              known == listing.sort_by \in ServiceReportAttrs
              sort_column == IF known THEN listing.sort_by ELSE "created_at"
              reverse == IF known THEN listing.sort_order = "desc" ELSE TRUE
          IN IF SoldById(sold_machine_id) = {}
             THEN listing' = Refused("NotFound")
             ELSE \E sorted \in SqlSorted(matching, sort_column, reverse) :
                     listing' = Fetched(page, Page(Cardinality(matching), page, limit,
                                                   Slice(sorted, page, limit)))
    /\ UNCHANGED <<db, last, ext>>

\* ServiceReport JOIN User JOIN ServiceType, searched on the joined columns
Activities(user_id, search) ==
    {r \in reports :
        /\ r.service_type_id \in ServiceTypeIds
        /\ \E u \in users :
              /\ u.id = r.user_id
              /\ \/ search = NoSearch
                 \/ ILike(u.name, search)
                 \/ ILike(u.email, search)
                 \/ ILike(ServiceTypeText(r.service_type_id), search)
        /\ is_admin(user_id) \/ r.user_id = user_id}

get_recent_activities ==
    /\ listing.fn = "get_recent_activities"
    /\ \E page \in Pages :
          LET limit == listing.limit
              matching == Activities(listing.user_id, listing.search)
              sort_column == IF listing.sort_by \in ServiceReportAttrs
                             THEN listing.sort_by ELSE "created_at"
              reverse == listing.sort_order # "asc"
              total == Cardinality(matching)
              total_pages == IF total > 0 THEN Ceil(total, limit) ELSE 1
          IN \E sorted \in SqlSorted(matching, sort_column, reverse) :
                listing' = Fetched(page, [total |-> total,
                                          has_next |-> page < total_pages,
                                          has_previous |-> page > 1,
                                          items |-> IdsOf(Slice(sorted, page, limit))])
    /\ UNCHANGED <<db, last, ext>>

-----------------------------------------------------------------------------

(* Dashboard statistics: app/helper/dashboard.py *)

\* ['Warranty', 'AMC', 'Paid', 'Installation', 'Health Check']
expected_service_types == << <<"W">>, <<"A">>, <<"P">>, <<"I">>, <<"H">> >>

\* str.lower()
lower(text) == [i \in DOMAIN text |-> Lower(text[i])]

\* ServiceType LEFT JOIN ServiceReport GROUP BY ServiceType.service_type:
\* one row per distinct name, exactly as it is spelt, with the number of
\* reports of the types of that name
service_type_counts ==
    {[service_type |-> name,
      count |-> Cardinality({r \in reports :
                   \E t \in service_types : /\ t.id = r.service_type_id
                                            /\ t.service_type = name})] :
       name \in {t.service_type : t \in service_types}}

\* counts_dict keeps the order in which the statement returned its groups,
\* and the statement has no ORDER BY
counts_dicts ==
    {f \in [1..Cardinality(service_type_counts) -> service_type_counts] :
        \A i, j \in DOMAIN f : i # j => f[i] # f[j]}

\* the loop over expected_service_types: the count of the first group whose
\* lowered name is the lowered expected name, 0 when the loop finds none
service_type_stats(counts_dict) ==
    [e \in DOMAIN expected_service_types |->
        LET service_type == expected_service_types[e]
            hits == {j \in DOMAIN counts_dict :
                        lower(counts_dict[j].service_type) = lower(service_type)}
        IN [service_type |-> service_type,
            count |-> IF hits = {} THEN 0
                      ELSE counts_dict[CHOOSE j \in hits : \A k \in hits : j <= k].count]]

\* the count of the sold rows, one per unit
sold_machines_count_units == Cardinality(sold)

\* db.query(SoldMachine.machine_id).distinct().count()
sold_machines_count == Cardinality({x.machine_id : x \in sold})

\* Role.role_name.ilike('%distributor%'): a role name is a text of one
\* symbol.  monthly_service_reports depends on the clock and is left out.
get_dashboard_statistics ==
    LET distributor_role == {role \in RoleNames : ILike(<<role>>, <<"distributor">>)}
        total_distributors == Cardinality({u \in users : u.role \in distributor_role})
        total_machines == Cardinality(machines)
    IN /\ last' = Result("get_dashboard_statistics", NULL,
                         [total_distributors |-> total_distributors,
                          sold_machines |-> sold_machines_count,
                          available_machines |-> total_machines - sold_machines_count],
                         "ok", {})
       /\ UNCHANGED db
       /\ UNCHANGED <<listing, ext>>

get_service_type_statistics ==
    \E counts_dict \in counts_dicts :
       /\ last' = Result("get_service_type_statistics", NULL,
                         service_type_stats(counts_dict), "ok", {})
       /\ UNCHANGED db
       /\ UNCHANGED <<listing, ext>>

------------------------------------------------------------------------------
(* Accounts: app/routers/auth.py *)

MaxUsers == 1

EmailInputs == {<<"x", "1">>, <<"x", "3">>}
RoleInputs == RoleNames \cup {"nosuch"}
ProviderInputs == {"up", "down"}

\* the step of register that raises, "none" when none does.  sign_up comes
\* before the Role lookup.
RegisterStage(email, role, provider, fault) ==
    IF \E u \in users : u.email = email THEN "existing_user"
    ELSE IF provider = "down" THEN "sign_up"
    ELSE IF role \notin RoleNames THEN "role"
    ELSE IF fault = "commit" THEN "commit"
    ELSE "none"

\* every HTTPException of register is raised inside its try, whose handlers
\* are "except IntegrityError" and "except Exception": the 400 of a step is
\* caught by the second and leaves as a 500
RegisterFailure(stage) == "ServerError"

register ==
    \E email \in EmailInputs, role \in RoleInputs,
       provider \in ProviderInputs, fault \in DbFaultInputs :
       LET stage == RegisterStage(email, role, provider, fault)
           request == [email |-> email, role |-> role, stage |-> stage]
           signed_up == stage \in {"role", "commit", "none"}
       IN /\ stage = "none" => next.users < 3 + MaxUsers
          /\ identity' = IF signed_up
                          THEN [identity EXCEPT !.accounts = @ \cup {email}]
                          ELSE identity
          /\ IF stage = "none"
             THEN /\ users' = users \cup {UserRow(next.users, role, <<"x">>, email)}
                  /\ next' = [next EXCEPT !.users = @ + 1]
                  /\ last' = Result("register", next.users, request, "ok", {})
             ELSE /\ last' = Result("register", NULL, request, RegisterFailure(stage), {})
                  /\ UNCHANGED <<users, next>>
          /\ UNCHANGED <<machines, sold, reports, parts, files>>
          /\ UNCHANGED <<listing, service_types, requests>>

\* get_user_role of the caller: the name of the caller's Role row, None
\* (written "") for a caller without role_id.  The Role table is filled
\* outside the application.
CallerRoles == RoleNames \cup {"distributer", "nosuch", ""}

\* require_admin, require_distributer, require_any_role
allowed_roles ==
    [require_admin |-> {"admin"},
     require_distributer |-> {"distributer"},
     require_any_role |-> {"admin", "distributer"}]

\* the dependency runs before the handler: a 403 leaves every row unread
role_checker ==
    \E guard \in DOMAIN allowed_roles, role_name \in CallerRoles :
       /\ last' = Result("role_checker", NULL,
                         [guard |-> guard, role_name |-> role_name],
                         IF role_name = "" \/ role_name \notin allowed_roles[guard]
                         THEN "Forbidden" ELSE "ok", {})
       /\ UNCHANGED db
       /\ UNCHANGED <<listing, ext>>

\* an answer that tells whether the email is registered
reset_response_telling(user) ==
    IF user = {} THEN [success |-> FALSE, message |-> "not registered"]
    ELSE [success |-> TRUE, message |-> "sent"]

\* the dict returned at 209-212, at 227-230 and by the handler at 234-237
reset_response(user) == [success |-> TRUE, message |-> "sent"]

forgot_password ==
    \E email \in EmailInputs, provider \in ProviderInputs :
       LET user == {u \in users : u.email = email}
       IN /\ identity' = IF user # {} /\ provider = "up"
                          THEN [identity EXCEPT !.resets = @ \cup {email}]
                          ELSE identity
          /\ last' = Result("forgot_password", NULL, reset_response(user), "ok", {})
          /\ UNCHANGED db
          /\ UNCHANGED <<listing, service_types, requests>>

------------------------------------------------------------------------------
Init ==
    /\ users = BaseUsers
    /\ machines = {}
    /\ sold = {}
    /\ reports = {}
    /\ parts = {}
    /\ files = {}
    /\ next = [users |-> 3, machines |-> 1, sold |-> 1, reports |-> 1]
    /\ last = Result("init", NULL, NoStr, "none", {})
    /\ listing = NoListing
    /\ service_types = BaseServiceTypes
    /\ identity = BaseIdentity
    /\ requests = <<>>

Next ==
    \/ create_machine_by_type
    \/ create_sold_machine
    \/ create_customer_record
    \/ create_service_report
    \/ update_machine_details
    \/ delete_sold_machine
    \/ delete_machine
    \/ delete_user
    \/ get_service_report_detail
    \/ get_sold_machine_details
    \/ get_dashboard_statistics

Spec == Init /\ [][Next]_vars

-----------------------------------------------------------------------------
(* Listed datasets and the calls made on them *)

ListTexts == {<<"A">>, <<"b">>}
Digit(i) == <<"1", "2", "3", "4">>[i]

ListMachines(n) ==
    {{MachineRow(i, f[i].type, f[i].model_no, <<"P", Digit(i)>>, NoKey) : i \in 1..n} :
       f \in {g \in [1..n -> [type : TypeNames, model_no : ListTexts]] :
                 n > 0 => g[1].type = "pump"}}

ListSold(n, k) ==
    {{SoldMachineRow(j, f[j].machine_id, NULL, <<"S", Digit(j)>>, f[j].customer_name) :
         j \in 1..k} :
       f \in [1..k -> [machine_id : 1..n, customer_name : ListTexts]]}

ListReports(k, authors) ==
    {{ServiceReportRow(i, f[i].user_id, 1, "Warranty", f[i].problem) : i \in 1..k} :
       f \in [1..k -> [user_id : authors, problem : ListTexts]]}

ListUsers ==
    {{UserRow(1, "admin", name1, <<"x", "1">>),
      UserRow(2, role2, name2, <<"x", "2">>)} :
       name1 \in ListTexts, role2 \in RoleNames, name2 \in ListTexts}

Stored(n, k, r) == [users |-> 3, machines |-> n + 1, sold |-> k + 1, reports |-> r + 1]

\* the catalogue and the sold units vary
ListInitMachines ==
    \E n \in 1..MaxList, k \in 0..MaxList :
       /\ users = BaseUsers
       /\ machines \in ListMachines(n)
       /\ sold \in ListSold(n, k)
       /\ reports = {}
       /\ next = Stored(n, k, 0)

\* the reports vary; an author may have been deleted since
ListInitReports ==
    \E r \in 1..MaxList, gone \in BOOLEAN :
       /\ users = IF gone THEN {u \in BaseUsers : u.id = 1} ELSE BaseUsers
       /\ machines = {MachineRow(1, "pump", <<"A">>, <<"P", "1">>, NoKey)}
       /\ sold = {SoldMachineRow(1, 1, NULL, <<"S", "1">>, <<"A">>)}
       /\ reports \in ListReports(r, IF gone THEN {1, NULL} ELSE {1, 2})
       /\ next = Stored(1, 1, r)

\* the users vary
ListInitUsers ==
    /\ users \in ListUsers
    /\ machines = {}
    /\ sold = {}
    /\ reports = {}
    /\ next = Stored(0, 0, 0)

Call(fn, type_name, role_name, user_id, sold_machine_id, sort_by) ==
    {[fn |-> fn, type_name |-> type_name, role_name |-> role_name,
      user_id |-> user_id, sold_machine_id |-> sold_machine_id,
      search |-> search, sort_by |-> sort_by, sort_order |-> sort_order,
      limit |-> limit, status |-> "none", pages |-> <<>>] :
       search \in SearchInputs, sort_order \in SortOrders, limit \in Limits}

\* the endpoints pass the id of the signed-in user, whose User row may be
\* gone by the time of the call
Calls ==
    UNION ({Call(fn, type_name, "", NULL, NULL, sort_by) :
               fn \in {"get_machines_by_type", "get_sold_machines_by_type"},
               type_name \in TypeNameInputs, sort_by \in MachineSortInputs}
           \cup {Call("get_users_by_role", "", role_name, NULL, NULL, sort_by) :
                    role_name \in RoleNameInputs, sort_by \in UserSortInputs}
           \cup {Call(fn, "", "", u.id, NULL, sort_by) :
                    fn \in {"get_user_service_reports", "get_recent_activities"},
                    u \in BaseUsers, sort_by \in ServiceReportSortInputs}
           \cup {Call("get_machine_service_reports", "", "", NULL, id, sort_by) :
                    id \in SoldIds, sort_by \in ServiceReportSortInputs})

ListInit ==
    /\ ListInitMachines \/ ListInitReports \/ ListInitUsers
    /\ parts = {}
    /\ files = {}
    /\ last = Result("init", NULL, NoStr, "none", {})
    /\ listing \in Calls
    /\ service_types = BaseServiceTypes
    /\ identity = BaseIdentity
    /\ requests = <<>>

ListNext ==
    \/ get_machines_by_type
    \/ get_sold_machines_by_type
    \/ get_users_by_role
    \/ get_user_service_reports
    \/ get_machine_service_reports
    \/ get_recent_activities

ListSpec == ListInit /\ [][ListNext]_vars

------------------------------------------------------------------------------
(* The statistics of a ServiceType table and its reports.  The table is     *)
(* filled outside the application: the names of its rows are free.          *)

MaxStat == 3

StatTypes == {ServiceTypeRow("Warranty", <<"W">>), ServiceTypeRow("warranty", <<"w">>),
              ServiceTypeRow("AMC", <<"A">>), ServiceTypeRow("Other", <<"X">>)}

StatReports(k, types) ==
    {{ServiceReportRow(i, 1, NULL, f[i], <<"x">>) : i \in 1..k} :
       f \in [1..k -> {t.id : t \in types}]}

StatInit ==
    \E k \in 0..MaxStat :
       /\ users = BaseUsers
       /\ machines = {}
       /\ sold = {}
       /\ service_types \in SUBSET StatTypes \ {{}}
       /\ reports \in StatReports(k, service_types)
       /\ parts = {}
       /\ files = {}
       /\ next = Stored(0, 0, k)
       /\ last = Result("init", NULL, NoStr, "none", {})
       /\ listing = NoListing
       /\ identity = BaseIdentity
       /\ requests = <<>>

StatNext == get_service_type_statistics

StatSpec == StatInit /\ [][StatNext]_vars

------------------------------------------------------------------------------
(* Two create_machine_by_type calls in flight with one part_no.  Each call   *)
(* has its own session: a statement reads what is committed, and the row of  *)
(* a call is in the table once its db.commit() is done.                      *)

Callers == {1, 2}

Request(type_name, model_no, part_no, file) ==
    [pc |-> "lookup", type_name |-> type_name, model_no |-> model_no,
     part_no |-> part_no, file |-> file, res |-> "none"]

Finished(i, res) == [requests EXCEPT ![i].pc = "done", ![i].res = res]

\* machines.py:234-250: the Type lookup and the part_no lookup
create_machine_lookup(i) ==
    LET r == requests[i]
    IN /\ r.pc = "lookup"
       /\ requests' =
             IF r.type_name \notin TypeNames THEN Finished(i, "NotFound")
             ELSE IF MachinesByPartNo(r.part_no) # {} THEN Finished(i, "Conflict")
             ELSE [requests EXCEPT ![i].pc = IF r.file = "none" THEN "commit"
                                             ELSE "upload"]
       /\ UNCHANGED <<db, last, listing, service_types, identity>>

\* machines.py:255-279: the upload to the object store
create_machine_upload(i) ==
    LET r == requests[i]
    IN /\ r.pc = "upload"
       /\ requests' = IF r.file = "fail" THEN Finished(i, "ServerError")
                      ELSE [requests EXCEPT ![i].pc = "commit"]
       /\ UNCHANGED <<db, last, listing, service_types, identity>>

\* machines.py:282-294: db.add(new_machine); db.commit().  The machines table
\* has no unique constraint on part_no, so the commit has nothing to refuse.
create_machine_commit(i) ==
    LET r == requests[i]
        id == next.machines
        key == IF r.file = "ok" THEN MachineKey(id) ELSE NoKey
    IN /\ r.pc = "commit"
       /\ machines' = machines \cup
             {MachineRow(id, r.type_name, r.model_no, r.part_no, key)}
       /\ next' = [next EXCEPT !.machines = id + 1]
       /\ requests' = Finished(i, "ok")
       /\ last' = Result("create_machine_by_type", id, r.part_no, "ok", {})
       /\ UNCHANGED <<users, sold, reports, parts, files>>
       /\ UNCHANGED <<listing, service_types, identity>>

RaceInit ==
    \E part_no \in PartNos, stored \in BOOLEAN :
       /\ users = BaseUsers
       /\ machines = IF stored THEN {MachineRow(1, "pump", <<"A">>, part_no, NoKey)}
                      ELSE {}
       /\ sold = {}
       /\ reports = {}
       /\ parts = {}
       /\ files = {}
       /\ next = Stored(IF stored THEN 1 ELSE 0, 0, 0)
       /\ last = Result("init", NULL, NoStr, "none", {})
       /\ listing = NoListing
       /\ service_types = BaseServiceTypes
       /\ identity = BaseIdentity
       /\ requests \in [Callers -> {Request(type_name, model_no, part_no, file) :
                                       type_name \in TypeInputs, model_no \in ModelNos,
                                       file \in {"none", "ok", "fail"}}]

RaceNext ==
    \E i \in Callers :
       \/ create_machine_lookup(i)
       \/ create_machine_upload(i)
       \/ create_machine_commit(i)

RaceSpec == RaceInit /\ [][RaceNext]_vars

------------------------------------------------------------------------------
(* The accounts: users are registered, ask for a reset and are deleted *)

AuthNext ==
    \/ role_checker
    \/ register
    \/ forgot_password
    \/ delete_user

AuthSpec == Init /\ [][AuthNext]_vars

-----------------------------------------------------------------------------
(* Claims about the lifecycle operations, checked under Spec *)

Ids(S) == {x.id : x \in S}

\* C1: after a successful delete_machine(m) no SoldMachine row references m,
\* no ServiceReport tied to m (by machine_id or through a SoldMachine of m)
\* remains, none of the parts and files of such a report remains, no part
\* uses m, the Machine row is gone, and an object-store delete was requested
\* for m's file_key and for the file_key of every file of such a report.
C1_DeleteMachineCascade ==
    [][(last'.op = "delete_machine" /\ last'.res = "ok") =>
        LET m == last'.id
            S == {s \in sold : s.machine_id = m}
            R == {r \in reports : \/ r.machine_id = m
                                  \/ r.sold_machine_id \in Ids(S)}
            F == {f \in files : f.service_report_id \in Ids(R)}
            K == {f.file_key : f \in F} \cup
                 ({x.file_key : x \in {y \in machines : y.id = m}} \ {NoKey})
        IN /\ \A s \in sold' : s.machine_id # m
           /\ \A r \in reports' : r.id \notin Ids(R)
           /\ \A p \in parts' : p.service_report_id \notin Ids(R) /\ p.machine_id # m
           /\ \A f \in files' : f.service_report_id \notin Ids(R)
           /\ \A x \in machines' : x.id # m
           /\ K \subseteq last'.s3del]_vars

C3_PartNoUnique ==
    /\ [](\A m1, m2 \in machines :
            (m1.part_no = m2.part_no /\ m1.part_no # NoStr) => m1 = m2)
    /\ [][(/\ last'.op \in {"create_machine_by_type", "update_machine_details"}
           /\ last'.val # NoStr
           /\ \E m \in machines : m.part_no = last'.val /\ m.id # last'.id) =>
          (last'.res = "Conflict" /\ machines' = machines)]_vars

C5_DeleteUserFileRequests ==
    [][(last'.op = "delete_user" /\ last'.res = "ok") =>
        LET R == {r \in reports : r.user_id = last'.id}
            F == {f \in files : f.service_report_id \in Ids(R)}
        IN {f.file_key : f \in F} \subseteq last'.s3del]_vars

\* C6: after a successful delete_user(u) the User row is gone and no
\* SoldMachine recorded by u, no ServiceReport authored by u and no part or
\* file of such a report is left in the store.
C6_DeleteUserCascade ==
    [][(last'.op = "delete_user" /\ last'.res = "ok") =>
        LET u == last'.id
            S == {s \in sold : s.user_id = u}
            R == {r \in reports : r.user_id = u}
        IN /\ \A x \in users' : x.id # u
           /\ \A s \in sold' : s.id \notin Ids(S)
           /\ \A r \in reports' : r.id \notin Ids(R)
           /\ \A p \in parts' : p.service_report_id \notin Ids(R)
           /\ \A f \in files' : f.service_report_id \notin Ids(R)]_vars

-----------------------------------------------------------------------------
(* Claims about the listing operations, checked under ListSpec *)

\* the rows the call of the listing has to return over its pages
MatchingRows ==
    CASE listing.fn = "get_machines_by_type" ->
           {m \in machines : /\ m.type = listing.type_name
                             /\ MachineSearch(m, listing.search)}
      [] listing.fn = "get_sold_machines_by_type" ->
           {m \in machines :
               /\ m.type = listing.type_name
               /\ \E s \in sold : /\ s.machine_id = m.id
                                  /\ SoldSearch(m, s, listing.search)}
      [] listing.fn = "get_users_by_role" ->
           UsersOfRole(listing.role_name, listing.search)
      [] listing.fn = "get_user_service_reports" ->
           ReportsVisibleTo(listing.user_id, listing.search)
      [] listing.fn = "get_machine_service_reports" ->
           ReportsOfSoldMachine(listing.sold_machine_id, listing.search)
      [] listing.fn = "get_recent_activities" ->
           Activities(listing.user_id, listing.search)

Answered == listing.fn # "none" /\ listing.status = "ok"
LastPage == Ceil(Cardinality(MatchingRows), listing.limit)
AllPagesFetched == 1..LastPage \subseteq DOMAIN listing.pages
Items(p) == listing.pages[p].items
ItemSet(p) == {Items(p)[i] : i \in DOMAIN Items(p)}
\* the places, over pages 1..LastPage, at which the row id is returned
Places(id) ==
    {pl \in (1..LastPage) \X (1..listing.limit) :
        pl[2] <= Len(Items(pl[1])) /\ Items(pl[1])[pl[2]] = id}

\* C7: for every listing operation, a fixed dataset (rows with equal sort
\* keys included) and a fixed search, sort and page size L, the pages
\* 1..ceil(N/L) are pairwise disjoint, each holds at most L items and their
\* union is exactly the set of matching rows.
C7_PagesPartition ==
    (Answered /\ AllPagesFetched) =>
        /\ \A p \in 1..LastPage : Len(Items(p)) <= listing.limit
        /\ \A p, q \in 1..LastPage : p # q => ItemSet(p) \cap ItemSet(q) = {}
        /\ UNION {ItemSet(p) : p \in 1..LastPage} = Ids(MatchingRows)

SortByIsColumn ==
    listing.sort_by \in
        (CASE listing.fn \in {"get_machines_by_type", "get_sold_machines_by_type"} ->
                MachineAttrs
           [] listing.fn = "get_users_by_role" -> UserAttrs
           [] OTHER -> ServiceReportAttrs)

\* the matching rows in the order of created_at, which no two rows share
ByCreatedAt == PySorted(MatchingRows, "created_at", listing.sort_order = "desc")

\* C10: in every listing operation and either sort_order, a sort_by that
\* names no column of the listed rows returns the items in the order that
\* sort_by = "created_at" gives with the same sort_order.
C10_SortFallback ==
    (Answered /\ ~SortByIsColumn) =>
        \A p \in DOMAIN listing.pages :
           Items(p) = IdsOf(Slice(ByCreatedAt, p, listing.limit))

-----------------------------------------------------------------------------
(* Claims about create_service_report, checked under Spec *)

\* C11: a create_service_report that fails after the ServiceReport row was
\* provisionally added (a part line naming a missing Machine, an error while
\* the files are handled, a failed commit) leaves every table as it was
\* before the call.
C11_FailedReportRollsBack ==
    [][(/\ last'.op = "create_service_report"
        /\ last'.res # "ok"
        /\ last'.val \in {<<st>> : st \in AfterFlush}) =>
       (/\ reports' = reports /\ parts' = parts /\ files' = files
        /\ users' = users /\ machines' = machines /\ sold' = sold)]_vars

\* C11 witness: a call failed at the commit, after its report row was added,
\* on a store that already holds a committed report
C11_Witness ==
    /\ last.op = "create_service_report"
    /\ last.res = "ServerError"
    /\ last.val = <<"commit">>
    /\ Cardinality(reports) = 1
    /\ next.reports = 2

\* C12: a create_service_report that names a missing ServiceType, a missing
\* Machine, or a part line with a missing Machine reaches the caller as
\* NotFound and as no other error kind.
C12_MissingReferenceNotFound ==
    [][(/\ last'.op = "create_service_report"
        /\ last'.val \in {<<"service_type">>, <<"machine">>, <<"part">>}) =>
       last'.res = "NotFound"]_vars

-----------------------------------------------------------------------------
(* Claims about the create and update operations, checked under Spec *)

\* C13: a create_sold_machine whose request identifies no existing Machine
\* (and whose serial_no is free) fails with NotFound and adds no SoldMachine.
C13_SoldMachineNeedsMachine ==
    [][(/\ last'.op = "create_sold_machine"
        /\ MachinesByPartNo(last'.part_no) = {}
        /\ SoldBySerialNo(last'.val) = {}) =>
       (last'.res = "NotFound" /\ sold' = sold)]_vars

\* C14: create_sold_machine and create_customer_record succeed and add a
\* SoldMachine row for a Machine that already has SoldMachine rows, whenever
\* the unit's serial_no is held by no row.
C14_ManySoldPerMachine ==
    [][/\ (/\ last'.op = "create_sold_machine"
           /\ \E m \in MachinesByPartNo(last'.part_no) : SoldOfMachine(m.id) # {}
           /\ SoldBySerialNo(last'.val) = {}) =>
          (last'.res = "ok" /\ Cardinality(sold') = Cardinality(sold) + 1)
       /\ (/\ last'.op = "create_customer_record"
           /\ MachineById(last'.machine_id) # {}
           /\ SoldOfMachine(last'.machine_id) # {}) =>
          (last'.res = "ok" /\ Cardinality(sold') = Cardinality(sold) + 1)]_vars

\* C15: update_machine_details on an existing Machine succeeds, sets the
\* supplied field (part_no) to the supplied value and leaves every other
\* field of the row and every other row as it was.
C15_PartialUpdate ==
    [][(/\ last'.op = "update_machine_details"
        /\ MachineById(last'.id) # {}) =>
       (/\ last'.res = "ok"
        /\ machines' = {IF m.id = last'.id THEN [m EXCEPT !.part_no = last'.val]
                        ELSE m : m \in machines}
        /\ UNCHANGED <<users, sold, reports, parts, files>>)]_vars

\* C16: create_machine_by_type with no part_no is never refused with
\* Conflict, however many Machines without a part_no are stored.
C16_NoPartNoNoConflict ==
    [][(/\ last'.op = "create_machine_by_type"
        /\ last'.val = NoStr) =>
       last'.res # "Conflict"]_vars

-----------------------------------------------------------------------------
(* Claims about failures during the cascade deletes, checked under Spec *)

DeleteOps == {"delete_machine", "delete_sold_machine", "delete_user"}

\* the ServiceReportFiles rows of the reports a user authored
FilesAuthoredBy(user_id) ==
    {f \in files : \E r \in reports :
        r.user_id = user_id /\ f.service_report_id = r.id}

C18_DeleteRollsBack ==
    [][(/\ last'.op \in DeleteOps
        /\ last'.res = "ServerError") =>
       (/\ users' = users /\ machines' = machines /\ sold' = sold
        /\ reports' = reports /\ parts' = parts /\ files' = files
        /\ last'.op = "delete_machine" =>
              \A m \in MachineById(last'.id) :
                 m.file_key # NoKey => m.file_key \in last'.s3del)]_vars

\* C18 witness: the commit of a delete_machine failed for a Machine that has
\* a file and a sold unit; both rows are still stored
C18_Witness ==
    /\ last.op = "delete_machine"
    /\ last.res = "ServerError"
    /\ last.val = <<"commit">>
    /\ last.s3del # {}
    /\ \E m \in machines : m.id = last.id /\ SoldOfMachine(m.id) # {}

-----------------------------------------------------------------------------
(* Claims about the report detail, checked under Spec *)

\* C19: once the Machine a ServiceReport was created for has been deleted by
\* delete_machine, every get_service_report_detail for that report id fails
\* with NotFound.  (A report is only ever created for a stored Machine, so a
\* stored report whose Machine is not stored is one whose Machine was deleted.)
C19_DetailAfterDeleteMachine ==
    [][(/\ last'.op = "get_service_report_detail"
        /\ \A r \in reports : r.id = last'.id => MachineById(r.machine_id) = {}) =>
       last'.res = "NotFound"]_vars

\* C20: for a ServiceReport whose Machine has sold units, the detail carries
\* the serial_no and the customer fields of one of these SoldMachine rows,
\* whoever recorded the sale, and each part's stored quantity.
C20_DetailFromSoldMachine ==
    [][(/\ last'.op = "get_service_report_detail"
        /\ last'.res = "ok") =>
       \A r \in reports :
          (r.id = last'.id /\ SoldOfMachine(r.machine_id) # {}) =>
             /\ \E x \in SoldOfMachine(r.machine_id) :
                   /\ last'.detail.serial_no = x.serial_no
                   /\ last'.detail.customer_name = x.customer_name
             /\ last'.detail.quantities =
                   {<<y.id, y.quantity>> : y \in {z \in parts : z.service_report_id = r.id}}]_vars

-----------------------------------------------------------------------------
(* Claims about missing rows and derived counts, checked under Spec *)

\* C21: an operation given an id that matches no row fails with NotFound,
\* changes no row and requests no object-store delete: delete_machine,
\* delete_sold_machine, delete_user and get_sold_machine_details.  (A delete
\* records the id it was given only when the row was found, so every result
\* of a delete other than NotFound must be for a stored row.)
C21_UnknownIdNotFound ==
    [][/\ (last'.op = "get_sold_machine_details" /\ SoldById(last'.id) = {}) =>
             (last'.res = "NotFound" /\ last'.s3del = {})
       /\ (last'.op \in DeleteOps /\ last'.res = "NotFound") =>
             (/\ users' = users /\ machines' = machines /\ sold' = sold
              /\ reports' = reports /\ parts' = parts /\ files' = files
              /\ last'.s3del = {})
       /\ (last'.op = "delete_machine" /\ last'.res # "NotFound") =>
             MachineById(last'.id) # {}
       /\ (last'.op = "delete_sold_machine" /\ last'.res # "NotFound") =>
             SoldById(last'.id) # {}
       /\ (last'.op = "delete_user" /\ last'.res # "NotFound") =>
             UserById(last'.id) # {}]_vars

-----------------------------------------------------------------------------
(* Claims about the dashboard statistics *)

\* the reports whose ServiceType name is the expected name whatever the case
ReportsOfType(service_type) ==
    {r \in reports : \E t \in service_types :
        /\ t.id = r.service_type_id
        /\ lower(t.service_type) = lower(service_type)}

\* C22: get_service_type_statistics returns one entry for each of the five
\* expected service types, in the fixed order, whose count is the number of
\* reports whose ServiceType name equals the type case-insensitively (0 when
\* there is none), for every ServiceType table: names that differ only in
\* case and names outside the list included.
C22_ServiceTypeStatistics ==
    last.op = "get_service_type_statistics" =>
        /\ DOMAIN last.val = DOMAIN expected_service_types
        /\ \A e \in DOMAIN last.val :
              /\ last.val[e].service_type = expected_service_types[e]
              /\ last.val[e].count = Cardinality(ReportsOfType(expected_service_types[e]))

\* C23: in every state reached by the create and delete operations,
\* get_dashboard_statistics reports sold_machines = the number of distinct
\* Machines with at least one SoldMachine row and available_machines =
\* count(Machine) - sold_machines, between 0 and count(Machine).
C23_DashboardCounts ==
    last.op = "get_dashboard_statistics" =>
        /\ last.val.sold_machines =
              Cardinality({m \in machines : \E x \in sold : x.machine_id = m.id})
        /\ last.val.available_machines = Cardinality(machines) - last.val.sold_machines
        /\ 0 <= last.val.available_machines
        /\ last.val.available_machines <= Cardinality(machines)

\* the statistics of a catalogue whose Machine is sold twice
C23_Witness ==
    /\ last.op = "get_dashboard_statistics"
    /\ last.val.sold_machines > 0
    /\ Cardinality(sold) > last.val.sold_machines

-----------------------------------------------------------------------------
(* Claims about the stored part lines, checked under Spec *)

\* C24: every ServiceReportPart row ever stored has quantity >= 1:
\* create_service_report stores 1 for a line that gives no quantity and
\* never stores a line whose quantity is 0 or negative.
C24_QuantityAtLeastOne == \A p \in parts : p.quantity >= 1

-----------------------------------------------------------------------------
(* Claims about the accounts, checked under AuthSpec *)

\* C25: register with an email already held by a User row fails with
\* Conflict, adds no User row and makes no sign-up call to the identity
\* provider; a register that fails validation (an unknown role name) fails
\* before any mutation and leaves no identity-provider account created.
C25_RegisterRejectsEarly ==
    [][last'.op = "register" =>
          /\ (\E u \in users : u.email = last'.val.email) =>
                (/\ last'.res = "Conflict"
                 /\ users' = users
                 /\ identity' = identity)
          /\ last'.val.role \notin RoleNames =>
                (/\ last'.res # "ok"
                 /\ users' = users
                 /\ identity' = identity)]_vars

-----------------------------------------------------------------------------
(* Claims about concurrent calls, checked under RaceSpec *)

\* C26: for every interleaving of two concurrent create_machine_by_type
\* calls carrying the same non-null part_no, at most one call commits a
\* Machine row, so the store never holds two Machine rows with that part_no.
C26_OneCreatePerPartNo ==
    /\ Cardinality({i \in DOMAIN requests : requests[i].res = "ok"}) <= 1
    /\ \A i \in DOMAIN requests :
          Cardinality(MachinesByPartNo(requests[i].part_no)) <= 1

-----------------------------------------------------------------------------
(* Claims about the references between the tables, checked under Spec *)

\* C27: referential integrity is an invariant of every state reached by the
\* create, update and delete operations: every SoldMachine.machine_id names
\* a stored Machine, every reference of a ServiceReport to a Machine or a
\* SoldMachine that is set names a stored row and its service_type_id names
\* a ServiceType, every ServiceReportPart names a stored ServiceReport and a
\* stored Machine, and every ServiceReportFile names a stored ServiceReport.
C27_ReferentialIntegrity ==
    /\ \A x \in sold : MachineById(x.machine_id) # {}
    /\ \A r \in reports :
          /\ r.machine_id # NULL => MachineById(r.machine_id) # {}
          /\ r.sold_machine_id # NULL => SoldById(r.sold_machine_id) # {}
          /\ r.service_type_id \in ServiceTypeIds
    /\ \A p \in parts :
          /\ \E r \in reports : r.id = p.service_report_id
          /\ MachineById(p.machine_id) # {}
    /\ \A f \in files : \E r \in reports : r.id = f.service_report_id

\* a Machine was deleted and a report about it, with its file, is still stored
C27_Witness ==
    /\ last.op = "delete_machine"
    /\ last.res = "ok"
    /\ files # {}
    /\ \E r \in reports : r.machine_id = NULL

\* C28: the permission check admits a caller to an any-role operation if
\* and only if the caller's role is "admin" or "distributor" (the role name
\* that get_distributors lists and the dashboard counts), and to an
\* admin-only operation if and only if the role is "admin"; a caller with no
\* role or an unknown role is rejected.
C28_PermissionCheck ==
    last.op = "role_checker" =>
        /\ last.val.guard = "require_any_role" =>
              (last.res = "ok" <=> last.val.role_name \in {"admin", "distributor"})
        /\ last.val.guard = "require_admin" =>
              (last.res = "ok" <=> last.val.role_name = "admin")
        /\ last.val.role_name \in {"", "nosuch"} => last.res = "Forbidden"

-----------------------------------------------------------------------------
(* Claims about the visibility of reports, checked under ListSpec *)

\* C29: get_user_service_reports and get_recent_activities return to a
\* caller whose role is not admin (a caller id that matches no User
\* included) only ServiceReport rows whose user_id is the caller's id, with
\* total counting only those rows; to an admin caller they return the
\* reports of all users.
C29_ReportVisibility ==
    (/\ listing.fn \in {"get_user_service_reports", "get_recent_activities"}
     /\ listing.status = "ok") =>
        LET caller == listing.user_id
            admin == \E u \in users : u.id = caller /\ u.role = "admin"
            own == {r \in reports : r.user_id = caller}
            authored == {r \in reports : \E u \in users : u.id = r.user_id}
        IN \A p \in DOMAIN listing.pages :
              LET page == listing.pages[p]
                  items == {page.items[i] : i \in DOMAIN page.items}
              IN IF admin
                 THEN /\ items \subseteq {r.id : r \in reports}
                      /\ listing.search = NoSearch =>
                            (/\ page.total >= Cardinality(authored)
                             /\ page.total <= Cardinality(reports))
                 ELSE /\ items \subseteq {r.id : r \in own}
                      /\ page.total <= Cardinality(own)
                      /\ listing.search = NoSearch => page.total = Cardinality(own)

\* a distributor fetched a page of their own reports while another user's
\* report is stored
C29_Witness ==
    /\ listing.fn \in {"get_user_service_reports", "get_recent_activities"}
    /\ listing.status = "ok"
    /\ \E u \in users : u.id = listing.user_id /\ u.role # "admin"
    /\ \E r \in reports : r.user_id # listing.user_id
    /\ \E p \in DOMAIN listing.pages : Len(listing.pages[p].items) > 0

-----------------------------------------------------------------------------
(* Claims about the password reset, checked under AuthSpec *)

\* C30: forgot_password returns the same success response (success = true
\* and the identical message) for every email, whether or not a User with
\* that email exists and whether or not the call to the identity provider
\* fails, and changes no row.
C30_ForgotPasswordUniform ==
    [][last'.op = "forgot_password" =>
          /\ last'.res = "ok"
          /\ last'.val = [success |-> TRUE, message |-> "sent"]
          /\ users' = users /\ machines' = machines /\ sold' = sold
          /\ reports' = reports /\ parts' = parts /\ files' = files]_vars

\* a reset was asked for a registered email and mailed, and an email of the
\* requests is held by no User
C30_Witness ==
    /\ last.op = "forgot_password"
    /\ identity.resets # {}
    /\ \E email \in EmailInputs : \A u \in users : u.email # email

====
